---- MODULE Spec2Model ----
(***************************************************************************)
(* Pelix remote services: the common dispatcher (pelix/remote/dispatcher.py) *)
(*                                                                         *)
(* Dispatcher keeps two indexes over the exported end points               *)
(* (kind -> name -> Endpoint, uid -> Endpoint), notifies the injected      *)
(* listeners and routes calls; RegistryServlet tracks the HTTP ports it is *)
(* bound to.  Neither class takes a lock, so every method is modelled as   *)
(* the sequence of its reads and writes of shared state, one step each;    *)
(* a thread's position in a method is frame[t].pc.                         *)
(***************************************************************************)
EXTENDS Integers, Sequences, FiniteSets, Bags, TLC

\* ------------------------------------------------------------------ bounds
NumThreads == 2
NumListeners == 2
NumEndpoints == 3
NumPorts == 3

\* ------------------------------------------------------------ value domains
\* Threads of control calling into the component.
Threads == 1 .. NumThreads
\* The single caller of the sequential specification.
MainThread == 1

\* Kinds and names; "" is the empty (falsy) string.
Kinds == {"http", "rpc"}
Names == {"calc"}
KindArgs == Kinds \cup {""}
NameArgs == Names \cup {""}

\* The names registered where get_endpoints is examined.
QueryNames == {"calc", "log"}

\* Listener services (pelix.remote.SERVICE_ENDPOINT_LISTENER).
ListenerIds == 1 .. NumListeners

\* HTTP ports of the servers the servlet can be bound to.
Ports == 1 .. NumPorts

\* The method names and parameter lists given to dispatch.
Methods == {"add", "div", "echo"}
ParamLists == {<<2, 3>>, <<4, 0>>, <<7>>}

\* Values of the old_properties argument of update_endpoint.
OldProperties == {"before_a", "before_b"}

\* An Endpoint bean: uid, kind, name and the exported service instance.
\* Distinct Endpoint objects carry distinct uids.
MakeEndpoint(i) ==
  [uid |-> i,
   kind |-> IF i % 2 = 1 THEN "http" ELSE "rpc",
   name |-> "calc",
   instance |-> IF i % 2 = 1 THEN "adder" ELSE "echoer"]

EndpointObjects == {MakeEndpoint(i) : i \in 1 .. NumEndpoints}

\* Python None where an Endpoint is expected.
NoEndpoint == [uid |-> 0, kind |-> "", name |-> "", instance |-> "None"]

EndpointArgs == EndpointObjects \cup {NoEndpoint}

\* ------------------------------------------------------------ call results
\* A returned list is a bag of its elements: is_list tells [] from None.
NoResult ==
  [status |-> "none", exc |-> "", val |-> 0, ep |-> NoEndpoint, svc |-> "None",
   is_list |-> FALSE, list |-> EmptyBag, access |-> <<>>]
ReturnNone == [NoResult EXCEPT !.status = "return"]
ReturnValue(v) == [NoResult EXCEPT !.status = "return", !.val = v]
ReturnEndpoint(e) == [NoResult EXCEPT !.status = "return", !.ep = e]
ReturnService(s) == [NoResult EXCEPT !.status = "return", !.svc = s]
ReturnList(b) == [NoResult EXCEPT !.status = "return", !.is_list = TRUE, !.list = b]
ReturnAccess(port, path) == [NoResult EXCEPT !.status = "return", !.access = <<port, path>>]
Raise(x) == [NoResult EXCEPT !.status = "raise", !.exc = x]

\* Python True as returned by add_endpoint.
PyTrue == ReturnValue(1)

\* ------------------------------------------------------------ HTTP requests
\* The uid of an end point as it is written in a request path.
UidText(uid) == ToString(uid)

\* The parts of a request path between its slashes: the uid texts of the
\* end points and of one more uid, the two words do_GET looks for, another
\* word and the empty part.
PathParts ==
  {UidText(u) : u \in 1 .. NumEndpoints + 1} \cup {"endpoints", "endpoint", "other", ""}

\* request.get_path().split('/') of the request paths: a path starts with a
\* slash, so its first part is empty; one or two parts follow.
SplitPaths ==
  {<<"", a>> : a \in PathParts} \cup {<<"", a, b>> : a \in PathParts, b \in PathParts}

\* The uid of the Dispatcher, given as "sender".
DispatcherUid == "dispatcher-uid"

\* Lines 418-426: the dictionary made of an end point (the url, the
\* specifications and the properties of the bean are not modelled).
make_endpoint_dict(endpoint) ==
  [sender |-> DispatcherUid, uid |-> endpoint.uid,
   kind |-> endpoint.kind, name |-> endpoint.name]

NoDict == [sender |-> "", uid |-> 0, kind |-> "", name |-> ""]

\* The arguments of response.send_content(code, content, mime_type).  The
\* content is a text with the word it quotes, the JSON text of one
\* dictionary, or the JSON text of a list of dictionaries.
NoResponse ==
  [code |-> 0, mime |-> "", form |-> "none",
   text |-> "", quoted |-> "", object |-> NoDict, array |-> EmptyBag]
SendText(code, text, quoted) ==
  [NoResponse EXCEPT !.code = code, !.mime = "text/plain", !.form = "text",
                     !.text = text, !.quoted = quoted]
SendJsonObject(d) ==
  [NoResponse EXCEPT !.code = 200, !.mime = "application/json",
                     !.form = "object", !.object = d]
SendJsonArray(b) ==
  [NoResponse EXCEPT !.code = 200, !.mime = "application/json",
                     !.form = "array", !.array = b]

\* ---------------------------------------------------------------- state
VARIABLES
  kind_endpoints,  \* Dispatcher.__kind_endpoints: kind -> (name -> Endpoint)
  endpoints,       \* Dispatcher.__endpoints: uid -> Endpoint
  listeners,       \* Dispatcher._listeners: the injected listeners, in order
  ports,           \* RegistryServlet._ports
  controller,      \* RegistryServlet._controller
  frame,           \* per thread: the method being executed and its locals
  pre,             \* per thread: the shared state when its call started
  uid_reused,      \* an add_endpoint stored an end point whose uid was indexed
  removed,         \* (kind, name) pairs removed and not added again since
  live_adds,       \* (kind, name) -> adds stored since the last removal
  bound_ports,     \* ports given to bound_to and not to unbound_from since
  bound_before,    \* <<p, q>>: p was bound before q, both still bound
  heard,           \* observed listener -> uids it was told added, not removed
  malformed,       \* <<listener, fault>>: calls a listener should not get
  completed        \* recorded caller -> its last two finished calls

vars == <<kind_endpoints, endpoints, listeners, ports, controller,
          frame, pre, uid_reused, removed, live_adds, bound_ports, bound_before,
          heard, malformed, completed>>

dispatcherState == <<kind_endpoints, endpoints, listeners>>
servletState == <<ports, controller>>
registered == <<uid_reused, removed, live_adds>>
bindings == <<bound_ports, bound_before>>
observed == <<heard, malformed>>
history == <<registered, bindings, observed, completed>>

Slots == Kinds \X (Names \cup QueryNames)

IdleFrame ==
  [op |-> "none", pc |-> "idle",
   kind |-> "", name |-> "", endpoint |-> NoEndpoint,
   uid |-> 0, method |-> "", params |-> <<>>, listener |-> 0, port |-> 0,
   path |-> <<>>, response |-> NoResponse,
   attached |-> <<>>, detached |-> {}, live_at_start |-> {}, unregistered |-> {},
   snapshot |-> <<>>, i |-> 0, todo |-> {},
   old_properties |-> "None",
   delivered |-> <<>>, events |-> <<>>, raised_by |-> 0, consistent |-> TRUE,
   service |-> "None", invoked |-> FALSE,
   result |-> NoResult]

EmptyPre == [kinds |-> <<>>, uids |-> <<>>, listeners |-> <<>>]

\* The state after construction, but for the choice of the observed
\* listeners and of the recorded callers.
Constructed ==
  /\ kind_endpoints = <<>>
  /\ endpoints = <<>>
  /\ listeners = <<>>
  /\ ports = <<>>
  /\ controller = FALSE
  /\ frame = [t \in Threads |-> IdleFrame]
  /\ pre = [t \in Threads |-> EmptyPre]
  /\ uid_reused = FALSE
  /\ removed = {}
  /\ live_adds = [s \in Slots |-> 0]
  /\ bound_ports = {}
  /\ bound_before = {}
  /\ malformed = {}

\* No listener is observed and no caller is recorded.
Init == Constructed /\ heard = <<>> /\ completed = <<>>

\* Every listener is observed from its construction on.
InitObserved ==
  Constructed /\ heard = [l \in ListenerIds |-> {}] /\ completed = <<>>

\* The finished calls of the single caller are recorded.
InitRecorded ==
  Constructed /\ heard = <<>> /\ completed = [t \in {MainThread} |-> <<>>]

\* ---------------------------------------------------------------- helpers
\* dict[key] = value
DictSet(d, k, v) == [x \in DOMAIN d \cup {k} |-> IF x = k THEN v ELSE d[x]]

\* del dict[key] / dict.pop(key), key present
DictDel(d, k) == [x \in DOMAIN d \ {k} |-> d[x]]

\* dict.values() as a set
DictValues(d) == {d[k] : k \in DOMAIN d}

\* A thread can start a call when it is not inside one.
Quiet(t) == frame[t].pc = "idle"

\* The frame of a new call of method op.
NewFrame(op) == [IdleFrame EXCEPT !.op = op]

\* The shared state recorded when a call starts.
Snap == [kinds |-> kind_endpoints, uids |-> endpoints, listeners |-> listeners]

\* The call of thread t ends with result r.
Finish(t, f, r) == frame' = [frame EXCEPT ![t] = [f EXCEPT !.pc = "done", !.result = r]]

\* Outcomes of one listener callback: it returns or it raises.
Outcomes == {"ok", "raise"}

\* The exception a listener callback raises.
ListenerError == "ListenerError"

\* One call of a listener method: the method and the arguments it is given
\* (old is "None" for the methods without old_properties).
Event(l, method, endpoint, old) ==
  [listener |-> l, method |-> method, endpoint |-> endpoint, old |-> old]

\* The listener called at position i of a list, and the frame after the call.
Deliver(f, ev, outcome) ==
  [f EXCEPT !.delivered = Append(@, ev.listener),
            !.events = Append(@, ev),
            !.i = @ + 1,
            !.raised_by = IF outcome = "raise" THEN ev.listener ELSE @]

\* What the listener of the call ev, if it is observed, has been told so
\* far: the uids added and not removed, and the calls that do not fit them.
Hear(ev) ==
  LET l == ev.listener
      uid == ev.endpoint.uid
  IN IF l \notin DOMAIN heard
     THEN UNCHANGED observed
     ELSE /\ heard' = [heard EXCEPT ![l] =
                         IF ev.method = "endpoint_added" THEN @ \cup {uid}
                         ELSE IF ev.method = "endpoint_removed" THEN @ \ {uid}
                         ELSE @]
          /\ malformed' = malformed \cup
               (IF ev.method = "endpoint_added"
                THEN IF uid \in heard[l] THEN {<<l, "added twice">>} ELSE {}
                ELSE IF uid \notin heard[l] THEN {<<l, "not added">>} ELSE {})

\* ------------------------------------------------- Dispatcher.add_endpoint
\* Lines 127-135: the argument checks, then
\* kind_map = self.__kind_endpoints.setdefault(kind, {}).
AddEndpoint(t, kind, name, endpoint) ==
  /\ Quiet(t)
  /\ LET f == [NewFrame("add_endpoint") EXCEPT
                 !.kind = kind, !.name = name, !.endpoint = endpoint]
     IN IF kind = "" \/ name = "" \/ endpoint = NoEndpoint
        THEN /\ Finish(t, f, Raise("ValueError"))
             /\ UNCHANGED kind_endpoints
        ELSE /\ frame' = [frame EXCEPT ![t] = [f EXCEPT !.pc = "add_check"]]
             /\ kind_endpoints' =
                  IF kind \in DOMAIN kind_endpoints
                  THEN kind_endpoints
                  ELSE DictSet(kind_endpoints, kind, <<>>)
  /\ UNCHANGED <<endpoints, listeners, servletState, history>>

\* add_endpoint without the test of lines 136-137: the name is stored over
\* whatever the kind map holds.
AddCheck_Overwrites(t) ==
  /\ frame[t].pc = "add_check"
  /\ frame' = [frame EXCEPT ![t].pc = "add_store_kind"]
  /\ UNCHANGED <<dispatcherState, servletState, pre, history>>

\* Lines 136-137: if name in kind_map: raise KeyError.
AddCheck(t) ==
  /\ frame[t].pc = "add_check"
  /\ LET f == frame[t]
     IN IF f.name \in DOMAIN kind_endpoints[f.kind]
        THEN Finish(t, f, Raise("KeyError"))
        ELSE frame' = [frame EXCEPT ![t].pc = "add_store_kind"]
  /\ UNCHANGED <<dispatcherState, servletState, pre, history>>

\* Line 140: kind_map[name] = endpoint.
AddStoreKind(t) ==
  /\ frame[t].pc = "add_store_kind"
  /\ LET f == frame[t]
     IN /\ kind_endpoints' =
             [kind_endpoints EXCEPT ![f.kind] = DictSet(@, f.name, f.endpoint)]
        /\ removed' = removed \ {<<f.kind, f.name>>}
        /\ live_adds' = [live_adds EXCEPT ![<<f.kind, f.name>>] = @ + 1]
  /\ frame' = [frame EXCEPT ![t].pc = "add_store_uid"]
  /\ UNCHANGED <<endpoints, listeners, servletState, pre, uid_reused, bindings, observed, completed>>

\* add_endpoint without line 141: the end point never enters the uid index.
AddStoreUid_Skipped(t) ==
  /\ frame[t].pc = "add_store_uid"
  /\ frame' = [frame EXCEPT ![t].pc = "add_listeners"]
  /\ UNCHANGED <<dispatcherState, servletState, pre, history>>

\* Line 141: self.__endpoints[endpoint.uid] = endpoint.
AddStoreUid(t) ==
  /\ frame[t].pc = "add_store_uid"
  /\ LET f == frame[t]
     IN /\ endpoints' = DictSet(endpoints, f.endpoint.uid, f.endpoint)
        /\ uid_reused' = (uid_reused \/ f.endpoint.uid \in DOMAIN endpoints)
  /\ frame' = [frame EXCEPT ![t].pc = "add_listeners"]
  /\ UNCHANGED <<kind_endpoints, listeners, servletState, pre, removed, live_adds, bindings, observed, completed>>

\* Lines 144-145: if self._listeners: iterate over the copy self._listeners[:].
AddListeners(t) ==
  /\ frame[t].pc = "add_listeners"
  /\ frame' = [frame EXCEPT ![t] = [@ EXCEPT !.snapshot = listeners, !.i = 1,
                                              !.attached = listeners,
                                              !.pc = "add_notify"]]
  /\ UNCHANGED <<dispatcherState, servletState, pre, history>>

\* Line 146: listener.endpoint_added(endpoint) for the next listener of the
\* copy; an exception of the callback leaves add_endpoint.
AddNotify(t) ==
  /\ frame[t].pc = "add_notify"
  /\ frame[t].i <= Len(frame[t].snapshot)
  /\ \E outcome \in Outcomes :
       LET ev == Event(frame[t].snapshot[frame[t].i], "endpoint_added",
                       frame[t].endpoint, "None")
           f == Deliver(frame[t], ev, outcome)
       IN /\ Hear(ev)
          /\ IF outcome = "raise"
             THEN Finish(t, f, Raise(ListenerError))
             ELSE frame' = [frame EXCEPT ![t] = f]
  /\ UNCHANGED <<dispatcherState, servletState, pre, registered, bindings, completed>>

\* Line 148: return True.
AddReturn(t) ==
  /\ frame[t].pc = "add_notify"
  /\ frame[t].i > Len(frame[t].snapshot)
  /\ Finish(t, frame[t], PyTrue)
  /\ UNCHANGED <<dispatcherState, servletState, pre, history>>

\* ---------------------------------------------- Dispatcher.update_endpoint
\* Lines 162-170: the argument checks, then the setdefault of the kind map.
UpdateEndpoint(t, kind, name, endpoint, old_properties) ==
  /\ Quiet(t)
  /\ LET f == [NewFrame("update_endpoint") EXCEPT
                 !.kind = kind, !.name = name, !.endpoint = endpoint,
                 !.old_properties = old_properties]
     IN IF kind = "" \/ name = "" \/ endpoint = NoEndpoint
        THEN /\ Finish(t, f, Raise("ValueError"))
             /\ UNCHANGED kind_endpoints
        ELSE /\ frame' = [frame EXCEPT ![t] = [f EXCEPT !.pc = "update_check"]]
             /\ kind_endpoints' =
                  IF kind \in DOMAIN kind_endpoints
                  THEN kind_endpoints
                  ELSE DictSet(kind_endpoints, kind, <<>>)
  /\ UNCHANGED <<endpoints, listeners, servletState, history>>

\* update_endpoint reading the name with kind_map.setdefault(name, endpoint)
\* before the test of line 171: an unknown name is stored, then refused.
UpdateCheck_StoresFirst(t) ==
  /\ frame[t].pc = "update_check"
  /\ LET f == frame[t]
     IN IF f.name \notin DOMAIN kind_endpoints[f.kind]
        THEN /\ Finish(t, f, Raise("KeyError"))
             /\ kind_endpoints' =
                  [kind_endpoints EXCEPT ![f.kind] = DictSet(@, f.name, f.endpoint)]
        ELSE /\ frame' = [frame EXCEPT ![t].pc = "update_compare"]
             /\ UNCHANGED kind_endpoints
  /\ UNCHANGED <<endpoints, listeners, servletState, pre, history>>

\* Lines 171-172: if name not in kind_map: raise KeyError.
UpdateCheck(t) ==
  /\ frame[t].pc = "update_check"
  /\ LET f == frame[t]
     IN IF f.name \notin DOMAIN kind_endpoints[f.kind]
        THEN Finish(t, f, Raise("KeyError"))
        ELSE frame' = [frame EXCEPT ![t].pc = "update_compare"]
  /\ UNCHANGED <<dispatcherState, servletState, pre, history>>

\* update_endpoint without the comparison of lines 174-175: any end point is
\* accepted for a stored name.
UpdateCompare_Accepts(t) ==
  /\ frame[t].pc = "update_compare"
  /\ LET f == frame[t]
     IN IF f.name \notin DOMAIN kind_endpoints[f.kind]
        THEN Finish(t, f, Raise("KeyError"))
        ELSE frame' = [frame EXCEPT ![t] = [@ EXCEPT !.i = 1, !.pc = "update_notify"]]
  /\ UNCHANGED <<dispatcherState, servletState, pre, history>>

\* Lines 174-175: elif endpoint != kind_map[name]: raise ValueError.  The
\* subscript raises KeyError when the name has been popped since the check.
UpdateCompare(t) ==
  /\ frame[t].pc = "update_compare"
  /\ LET f == frame[t]
     IN IF f.name \notin DOMAIN kind_endpoints[f.kind]
        THEN Finish(t, f, Raise("KeyError"))
        ELSE IF f.endpoint # kind_endpoints[f.kind][f.name]
        THEN Finish(t, f, Raise("ValueError"))
        ELSE frame' = [frame EXCEPT ![t] = [@ EXCEPT !.i = 1,
                                                    !.attached = listeners,
                                                    !.pc = "update_notify"]]
  /\ UNCHANGED <<dispatcherState, servletState, pre, history>>

\* Lines 178-180: for listener in self._listeners:
\* listener.endpoint_updated(endpoint, old_properties).  The loop runs over
\* the list itself, not over a copy.
UpdateNotify(t) ==
  /\ frame[t].pc = "update_notify"
  /\ frame[t].i <= Len(listeners)
  /\ \E outcome \in Outcomes :
       LET ev == Event(listeners[frame[t].i], "endpoint_updated",
                       frame[t].endpoint, frame[t].old_properties)
           f == Deliver(frame[t], ev, outcome)
       IN /\ Hear(ev)
          /\ IF outcome = "raise"
             THEN Finish(t, f, Raise(ListenerError))
             ELSE frame' = [frame EXCEPT ![t] = f]
  /\ UNCHANGED <<dispatcherState, servletState, pre, registered, bindings, completed>>

\* Line 180, end of the loop: the method returns None.
UpdateReturn(t) ==
  /\ frame[t].pc = "update_notify"
  /\ frame[t].i > Len(listeners)
  /\ Finish(t, frame[t], ReturnNone)
  /\ UNCHANGED <<dispatcherState, servletState, pre, history>>

\* ---------------------------------------------- Dispatcher.remove_endpoint
\* remove_endpoint with pop(name, None) in line 191: an unknown name is
\* passed over in silence.
RemoveEndpoint_PopDefault(t, kind, name) ==
  /\ Quiet(t)
  /\ LET f == [NewFrame("remove_endpoint") EXCEPT !.kind = kind, !.name = name]
     IN IF kind \notin DOMAIN kind_endpoints
        THEN /\ Finish(t, f, Raise("KeyError"))
             /\ UNCHANGED <<kind_endpoints, removed, live_adds>>
        ELSE IF name \notin DOMAIN kind_endpoints[kind]
        THEN /\ Finish(t, f, ReturnNone)
             /\ UNCHANGED <<kind_endpoints, removed, live_adds>>
        ELSE /\ frame' = [frame EXCEPT ![t] =
                  [f EXCEPT !.endpoint = kind_endpoints[kind][name],
                            !.pc = "remove_del_uid"]]
             /\ kind_endpoints' = [kind_endpoints EXCEPT ![kind] = DictDel(@, name)]
             /\ removed' = removed
             /\ live_adds' = [live_adds EXCEPT ![<<kind, name>>] = 0]
  /\ UNCHANGED <<endpoints, listeners, servletState, uid_reused, bindings, observed, completed>>

\* remove_endpoint reading the kind map with [name] instead of pop(name) in
\* line 191: the name stays in the kind index.
RemoveEndpoint_KeepsName(t, kind, name) ==
  /\ Quiet(t)
  /\ LET f == [NewFrame("remove_endpoint") EXCEPT !.kind = kind, !.name = name]
     IN IF kind \notin DOMAIN kind_endpoints
        THEN /\ Finish(t, f, Raise("KeyError"))
             /\ UNCHANGED <<kind_endpoints, removed, live_adds>>
        ELSE IF name \notin DOMAIN kind_endpoints[kind]
        THEN /\ Finish(t, f, Raise("KeyError"))
             /\ UNCHANGED <<kind_endpoints, removed, live_adds>>
        ELSE /\ frame' = [frame EXCEPT ![t] =
                  [f EXCEPT !.endpoint = kind_endpoints[kind][name],
                            !.pc = "remove_del_uid"]]
             /\ UNCHANGED kind_endpoints
             /\ removed' = removed
             /\ live_adds' = [live_adds EXCEPT ![<<kind, name>>] = 0]
  /\ UNCHANGED <<endpoints, listeners, servletState, uid_reused, bindings, observed, completed>>

\* Line 191: endpoint = self.__kind_endpoints[kind].pop(name); both the
\* subscript and the pop raise KeyError.
RemoveEndpoint(t, kind, name) ==
  /\ Quiet(t)
  /\ LET f == [NewFrame("remove_endpoint") EXCEPT !.kind = kind, !.name = name]
     IN IF kind \notin DOMAIN kind_endpoints
        THEN /\ Finish(t, f, Raise("KeyError"))
             /\ UNCHANGED <<kind_endpoints, removed, live_adds>>
        ELSE IF name \notin DOMAIN kind_endpoints[kind]
        THEN /\ Finish(t, f, Raise("KeyError"))
             /\ UNCHANGED <<kind_endpoints, removed, live_adds>>
        ELSE /\ frame' = [frame EXCEPT ![t] =
                  [f EXCEPT !.endpoint = kind_endpoints[kind][name],
                            !.pc = "remove_del_uid"]]
             /\ kind_endpoints' = [kind_endpoints EXCEPT ![kind] = DictDel(@, name)]
             /\ removed' = removed
             /\ live_adds' = [live_adds EXCEPT ![<<kind, name>>] = 0]
  /\ UNCHANGED <<endpoints, listeners, servletState, uid_reused, bindings, observed, completed>>

\* remove_endpoint going on to the notification without line 192: the uid
\* stays in the uid index.
RemoveDelUid_Skipped(t) ==
  /\ frame[t].pc = "remove_del_uid"
  /\ frame' = [frame EXCEPT ![t].pc = "remove_listeners"]
  /\ UNCHANGED <<dispatcherState, servletState, pre, history>>

\* Line 192: del self.__endpoints[endpoint.uid].  The calls that are running
\* at that instant record the removal.
RemoveDelUid(t) ==
  /\ frame[t].pc = "remove_del_uid"
  /\ LET f == frame[t]
     IN IF f.endpoint.uid \notin DOMAIN endpoints
        THEN /\ Finish(t, f, Raise("KeyError"))
             /\ UNCHANGED endpoints
        ELSE /\ endpoints' = DictDel(endpoints, f.endpoint.uid)
             /\ frame' = [u \in Threads |->
                  IF u = t
                  THEN [f EXCEPT !.pc = "remove_listeners"]
                  ELSE IF frame[u].pc \in {"idle", "done"}
                  THEN frame[u]
                  ELSE [frame[u] EXCEPT !.unregistered = @ \cup {f.endpoint.uid}]]
  /\ UNCHANGED <<kind_endpoints, listeners, servletState, pre, history>>

\* Lines 195-196: if self._listeners: iterate over the copy self._listeners[:].
RemoveListeners(t) ==
  /\ frame[t].pc = "remove_listeners"
  /\ frame' = [frame EXCEPT ![t] = [@ EXCEPT !.snapshot = listeners, !.i = 1,
                                              !.attached = listeners,
                                              !.pc = "remove_notify"]]
  /\ UNCHANGED <<dispatcherState, servletState, pre, history>>

\* Line 197: listener.endpoint_removed(endpoint).
RemoveNotify(t) ==
  /\ frame[t].pc = "remove_notify"
  /\ frame[t].i <= Len(frame[t].snapshot)
  /\ \E outcome \in Outcomes :
       LET ev == Event(frame[t].snapshot[frame[t].i], "endpoint_removed",
                       frame[t].endpoint, "None")
           f == Deliver(frame[t], ev, outcome)
       IN /\ Hear(ev)
          /\ IF outcome = "raise"
             THEN Finish(t, f, Raise(ListenerError))
             ELSE frame' = [frame EXCEPT ![t] = f]
  /\ UNCHANGED <<dispatcherState, servletState, pre, registered, bindings, completed>>

\* Line 197, end of the loop: the method returns None.
RemoveReturn(t) ==
  /\ frame[t].pc = "remove_notify"
  /\ frame[t].i > Len(frame[t].snapshot)
  /\ Finish(t, frame[t], ReturnNone)
  /\ removed' = removed \cup
       (IF live_adds[<<frame[t].kind, frame[t].name>>] = 0
        THEN {<<frame[t].kind, frame[t].name>>} ELSE {})
  /\ UNCHANGED <<dispatcherState, servletState, pre, uid_reused, live_adds, bindings, observed, completed>>

\* ------------------------------------------------- Dispatcher.get_endpoint
\* The (kind, name) slots of the kind index that hold end point e.
SlotsOf(km, e) ==
  {s \in Slots : /\ s[1] \in DOMAIN km
                 /\ s[2] \in DOMAIN km[s[1]]
                 /\ km[s[1]][s[2]] = e}

\* The end points held by the kind index.
KindIndexed(km) == {e \in EndpointObjects : SlotsOf(km, e) # {}}

\* Line 208: return self.__endpoints.get(uid).  The frame also records
\* whether the kind index agreed with the answer at the instant of the read.
GetEndpoint(t, uid) ==
  /\ Quiet(t)
  /\ LET f == [NewFrame("get_endpoint") EXCEPT !.uid = uid]
         found == IF uid \in DOMAIN endpoints THEN endpoints[uid] ELSE NoEndpoint
         held == \E e \in KindIndexed(kind_endpoints) : e.uid = uid
     IN Finish(t, [f EXCEPT !.consistent = ((found # NoEndpoint) <=> held)],
               ReturnEndpoint(found))
  /\ UNCHANGED <<dispatcherState, servletState, history>>

\* ------------------------------------------------ Dispatcher.get_endpoints
\* Lines 225-234: the kind maps looked at.  A kind that is not a key, or whose
\* map is empty, gives no kind map (the early return []); without a kind
\* every kind map is looked at.  None and "" are both "no filter".
KindMaps(km, kind) ==
  IF kind # ""
  THEN IF kind \in DOMAIN km /\ DOMAIN km[kind] # {} THEN {kind} ELSE {}
  ELSE DOMAIN km

\* get_endpoints that leaves out the name test of lines 237-243: every entry
\* of the kind maps looked at is put in results.
MatchedSlots_AnyName(km, kind, name) ==
  {s \in KindMaps(km, kind) \X (Names \cup QueryNames) :
     s[2] \in DOMAIN km[s[1]]}

\* Lines 237-246: the (kind, name) entries whose end point is put in results:
\* kind_map.get(name) of every kind map looked at when a name is given,
\* kind_map.values() otherwise.
MatchedSlots(km, kind, name) ==
  {s \in KindMaps(km, kind) \X (Names \cup QueryNames) :
     /\ s[2] \in DOMAIN km[s[1]]
     /\ name # "" => s[2] = name}

\* Lines 236-247: results, one element for every entry found.
Results(km, kind, name) ==
  LET found == MatchedSlots(km, kind, name)
  IN [e \in {km[s[1]][s[2]] : s \in found} |->
        Cardinality({s \in found : km[s[1]][s[2]] = e})]

\* Lines 211-247: get_endpoints(kind, name).
GetEndpoints(t, kind, name) ==
  /\ Quiet(t)
  /\ Finish(t, [NewFrame("get_endpoints") EXCEPT !.kind = kind, !.name = name],
            ReturnList(Results(kind_endpoints, kind, name)))
  /\ UNCHANGED <<dispatcherState, servletState, history>>

\* -------------------------------------------------- Dispatcher.get_service
\* Lines 259-263: what get_service(kind, name) returns from the kind index km.
ServiceOf(km, kind, name) ==
  IF kind \in DOMAIN km /\ name \in DOMAIN km[kind]
  THEN km[kind][name].instance
  ELSE "None"

\* Line 208: what get_endpoint(uid) returns from the uid index um.
EndpointOf(um, uid) == IF uid \in DOMAIN um THEN um[uid] ELSE NoEndpoint

\* Lines 259-263: return self.__kind_endpoints[kind][name].instance, or None
\* on KeyError.
GetService(t, kind, name) ==
  /\ Quiet(t)
  /\ LET f == [NewFrame("get_service") EXCEPT !.kind = kind, !.name = name]
     IN IF kind \in DOMAIN kind_endpoints /\ name \in DOMAIN kind_endpoints[kind]
        THEN Finish(t, f, ReturnService(kind_endpoints[kind][name].instance))
        ELSE Finish(t, f, ReturnService("None"))
  /\ UNCHANGED <<dispatcherState, servletState, history>>

\* ----------------------------------------------------- Dispatcher.dispatch
\* The methods a service instance exposes (getattr finds them).
MethodsOf(service) ==
  IF service = "adder" THEN {"add", "div"}
  ELSE IF service = "echoer" THEN {"echo"}
  ELSE {}

\* method_ref(*params): what the method of the service does with the
\* positional arguments.
CallMethod(service, method, params) ==
  IF method = "add"
  THEN IF Len(params) = 2 THEN ReturnValue(params[1] + params[2])
       ELSE Raise("TypeError")
  ELSE IF method = "div"
  THEN IF Len(params) # 2 THEN Raise("TypeError")
       ELSE IF params[2] = 0 THEN Raise("ZeroDivisionError")
       ELSE ReturnValue(params[1] \div params[2])
  ELSE IF Len(params) = 1 THEN ReturnValue(params[1])
       ELSE Raise("TypeError")

\* Line 280: the end point looked up by dispatch.
DispatchTarget(km, kind, name) ==
  IF kind \in DOMAIN km /\ name \in DOMAIN km[kind]
  THEN km[kind][name]
  ELSE NoEndpoint

\* Lines 279-287: the lookup of the service (KeyError becomes
\* RemoteServiceError) and of the method (getattr(service, method, None)).
Dispatch(t, kind, name, method, params) ==
  /\ Quiet(t)
  /\ LET f == [NewFrame("dispatch") EXCEPT
                 !.kind = kind, !.name = name, !.method = method, !.params = params]
         target == DispatchTarget(kind_endpoints, kind, name)
     IN IF target = NoEndpoint
        THEN Finish(t, f, Raise("RemoteServiceError: Unknown endpoint"))
        ELSE IF method \notin MethodsOf(target.instance)
        THEN Finish(t, [f EXCEPT !.service = target.instance],
                    Raise("RemoteServiceError: Unknown method"))
        ELSE frame' = [frame EXCEPT ![t] =
               [f EXCEPT !.service = target.instance, !.pc = "dispatch_call"]]
  /\ UNCHANGED <<dispatcherState, servletState, history>>

\* dispatch wrapping the errors of the called method in RemoteServiceError
\* instead of letting them through in line 290.
DispatchCall_WrapsErrors(t) ==
  /\ frame[t].pc = "dispatch_call"
  /\ LET f == frame[t]
         r == CallMethod(f.service, f.method, f.params)
     IN Finish(t, [f EXCEPT !.invoked = TRUE],
               IF r.status = "raise" THEN Raise("RemoteServiceError") ELSE r)
  /\ UNCHANGED <<dispatcherState, servletState, pre, history>>

\* dispatch looking the end point up again when the method has run and
\* failing when it is no longer registered.
DispatchCall_LooksUpAgain(t) ==
  /\ frame[t].pc = "dispatch_call"
  /\ LET f == frame[t]
     IN Finish(t, [f EXCEPT !.invoked = TRUE],
               IF DispatchTarget(kind_endpoints, f.kind, f.name) = NoEndpoint
               THEN Raise("RemoteServiceError: Unknown endpoint")
               ELSE CallMethod(f.service, f.method, f.params))
  /\ UNCHANGED <<dispatcherState, servletState, pre, history>>

\* Line 290: return method_ref(*params); the method runs outside the
\* dispatcher and its result or exception is handed to the caller.
DispatchCall(t) ==
  /\ frame[t].pc = "dispatch_call"
  /\ LET f == frame[t]
     IN Finish(t, [f EXCEPT !.invoked = TRUE],
               CallMethod(f.service, f.method, f.params))
  /\ UNCHANGED <<dispatcherState, servletState, pre, history>>

\* ---------------------------------------------------------- Dispatcher.bind
\* Lines 68-69, 97-102: the listener is injected in _listeners and bind is
\* called; every modelled listener has the listen.exported property, so the
\* replay starts over self.__endpoints.values().
Bind(t, svc) ==
  /\ Quiet(t)
  /\ svc \notin {listeners[i] : i \in DOMAIN listeners}
  /\ listeners' = Append(listeners, svc)
  /\ frame' = [frame EXCEPT ![t] =
       [NewFrame("bind") EXCEPT !.listener = svc,
                                !.todo = DictValues(endpoints),
                                !.live_at_start = DictValues(endpoints),
                                !.pc = "bind_replay"]]
  /\ UNCHANGED <<kind_endpoints, endpoints, servletState, history>>

\* The ways one turn of the loop of line 101 can go: the callback returns
\* or raises; where values() is a view of the dictionary (Python 3) and the
\* dictionary has changed size since the loop started, the iterator raises
\* RuntimeError before the callback; where values() is a list (Python 2) the
\* loop goes on.
ReplayOutcomes(f) ==
  Outcomes \cup (IF Cardinality(DOMAIN endpoints) # Cardinality(f.live_at_start)
                 THEN {"changed"} ELSE {})

\* Lines 101-106: svc.endpoint_added(endpoint) for the next end point; an
\* exception, of the callback or of the iterator, is logged and ends the
\* replay.
BindReplay(t) ==
  /\ frame[t].pc = "bind_replay"
  /\ \E e \in frame[t].todo, outcome \in ReplayOutcomes(frame[t]) :
       LET ev == Event(frame[t].listener, "endpoint_added", e, "None")
           f == [frame[t] EXCEPT !.delivered = Append(@, e.uid),
                                 !.events = Append(@, ev),
                                 !.todo = @ \ {e},
                                 !.raised_by = IF outcome = "raise"
                                               THEN frame[t].listener ELSE @]
       IN IF outcome = "changed"
          THEN /\ Finish(t, frame[t], ReturnNone)
               /\ UNCHANGED observed
          ELSE /\ Hear(ev)
               /\ IF outcome = "raise"
                  THEN Finish(t, f, ReturnNone)
                  ELSE frame' = [frame EXCEPT ![t] = f]
  /\ UNCHANGED <<dispatcherState, servletState, pre, registered, bindings, completed>>

\* Line 102, end of the loop: bind returns None.
BindReturn(t) ==
  /\ frame[t].pc = "bind_replay"
  /\ frame[t].todo = {}
  /\ Finish(t, frame[t], ReturnNone)
  /\ UNCHANGED <<dispatcherState, servletState, pre, history>>

\* The framework takes a departed listener out of the injected list.  The
\* calls that are running at that instant record the departure.
Unbind(t, svc) ==
  /\ Quiet(t)
  /\ svc \in {listeners[i] : i \in DOMAIN listeners}
  /\ listeners' = SelectSeq(listeners, LAMBDA l : l # svc)
  /\ frame' = [u \in Threads |->
       IF u = t
       THEN [NewFrame("unbind") EXCEPT !.listener = svc, !.pc = "done",
                                       !.result = ReturnNone]
       ELSE IF frame[u].pc \in {"idle", "done"}
       THEN frame[u]
       ELSE [frame[u] EXCEPT !.detached = @ \cup {svc}]]
  /\ heard' = IF svc \in DOMAIN heard THEN [heard EXCEPT ![svc] = {}] ELSE heard
  /\ UNCHANGED <<kind_endpoints, endpoints, servletState, registered, bindings, malformed, completed>>

\* ------------------------------------------------ RegistryServlet.bound_to
\* Lines 339-340: if port not in self._ports.
BoundTo(t, port) ==
  /\ Quiet(t)
  /\ LET f == [NewFrame("bound_to") EXCEPT !.port = port]
     IN IF port \in {ports[i] : i \in DOMAIN ports}
        THEN Finish(t, f, ReturnNone)
        ELSE frame' = [frame EXCEPT ![t] = [f EXCEPT !.pc = "bound_append"]]
  /\ bound_ports' = bound_ports \cup {port}
  /\ bound_before' = IF port \in bound_ports
                     THEN bound_before
                     ELSE bound_before \cup {<<p, port>> : p \in bound_ports}
  /\ UNCHANGED <<dispatcherState, servletState, pre, registered, observed, completed>>

\* Line 342: self._ports.append(port).
BoundAppend(t) ==
  /\ frame[t].pc = "bound_append"
  /\ ports' = Append(ports, frame[t].port)
  /\ frame' = [frame EXCEPT ![t].pc = "bound_activate"]
  /\ UNCHANGED <<dispatcherState, controller, pre, history>>

\* Line 345: self._controller = True.
BoundActivate(t) ==
  /\ frame[t].pc = "bound_activate"
  /\ controller' = TRUE
  /\ Finish(t, frame[t], ReturnNone)
  /\ UNCHANGED <<dispatcherState, ports, pre, history>>

\* -------------------------------------------- RegistryServlet.unbound_from
\* list.remove(x): the list without its first x.
ListRemove(seq, x) ==
  LET first == CHOOSE i \in DOMAIN seq :
                 seq[i] = x /\ \A j \in 1 .. (i - 1) : seq[j] # x
  IN [j \in 1 .. (Len(seq) - 1) |-> IF j < first THEN seq[j] ELSE seq[j + 1]]

\* Lines 355-356: if port in self._ports.
UnboundFrom(t, port) ==
  /\ Quiet(t)
  /\ LET f == [NewFrame("unbound_from") EXCEPT !.port = port]
     IN IF port \in {ports[i] : i \in DOMAIN ports}
        THEN frame' = [frame EXCEPT ![t] = [f EXCEPT !.pc = "unbound_remove"]]
        ELSE Finish(t, f, ReturnNone)
  /\ bound_ports' = bound_ports \ {port}
  /\ bound_before' = {b \in bound_before : b[1] # port /\ b[2] # port}
  /\ UNCHANGED <<dispatcherState, servletState, pre, registered, observed, completed>>

\* Line 358: self._ports.remove(port); ValueError when the port has gone.
UnboundRemove(t) ==
  /\ frame[t].pc = "unbound_remove"
  /\ IF frame[t].port \in {ports[i] : i \in DOMAIN ports}
     THEN /\ ports' = ListRemove(ports, frame[t].port)
          /\ frame' = [frame EXCEPT ![t].pc = "unbound_check"]
     ELSE /\ UNCHANGED ports
          /\ Finish(t, frame[t], Raise("ValueError"))
  /\ UNCHANGED <<dispatcherState, controller, pre, history>>

\* Line 361: if not self._ports.
UnboundCheck(t) ==
  /\ frame[t].pc = "unbound_check"
  /\ IF ports = <<>>
     THEN frame' = [frame EXCEPT ![t].pc = "unbound_deactivate"]
     ELSE Finish(t, frame[t], ReturnNone)
  /\ UNCHANGED <<dispatcherState, servletState, pre, history>>

\* Line 362: self._controller = False.
UnboundDeactivate(t) ==
  /\ frame[t].pc = "unbound_deactivate"
  /\ controller' = FALSE
  /\ Finish(t, frame[t], ReturnNone)
  /\ UNCHANGED <<dispatcherState, ports, pre, history>>

\* ---------------------------------------------- RegistryServlet.get_access
\* Line 309: the default value of the http.servlet.path property.
ServletPath == "/pelix-dispatcher"

\* get_access giving the port bound last, self._ports[-1], instead of the
\* first one.
GetAccess_Latest(t) ==
  /\ Quiet(t)
  /\ IF ports # <<>>
     THEN Finish(t, NewFrame("get_access"), ReturnAccess(ports[Len(ports)], ServletPath))
     ELSE Finish(t, NewFrame("get_access"), ReturnNone)
  /\ UNCHANGED <<dispatcherState, servletState, pre, history>>

\* Lines 437-438: if self._ports: return (self._ports[0], self._path);
\* otherwise the method returns None.
GetAccess(t) ==
  /\ Quiet(t)
  /\ IF ports # <<>>
     THEN Finish(t, NewFrame("get_access"), ReturnAccess(ports[1], ServletPath))
     ELSE Finish(t, NewFrame("get_access"), ReturnNone)
  /\ UNCHANGED <<dispatcherState, servletState, pre, history>>

\* -------------------------------------------------- RegistryServlet.do_GET
\* Line 393: [self._make_endpoint_dict(endpoint) for endpoint in endpoints].
EndpointDicts(b) ==
  [d \in {make_endpoint_dict(e) : e \in DOMAIN b} |->
     b[CHOOSE e \in DOMAIN b : make_endpoint_dict(e) = d]]

\* do_GET answering an empty registry with 404 instead of the empty list of
\* lines 389-390.
DoGet_EmptyNotFound(t, path) ==
  /\ Quiet(t)
  /\ LET f == [NewFrame("do_GET") EXCEPT !.path = path]
         last == path[Len(path)]
         found == {u \in DOMAIN endpoints : UidText(u) = last}
         all == Results(kind_endpoints, "", "")
         answer ==
           IF path[Len(path) - 1] = "endpoint"
           THEN IF found = {}
                THEN SendText(404, "Unknown UID: ", last)
                ELSE SendJsonObject(make_endpoint_dict(endpoints[CHOOSE u \in found : TRUE]))
           ELSE IF last = "endpoints" /\ all # EmptyBag
           THEN SendJsonArray(EndpointDicts(all))
           ELSE SendText(404, "Unhandled path", "")
     IN Finish(t, [f EXCEPT !.response = answer], ReturnNone)
  /\ UNCHANGED <<dispatcherState, servletState, history>>

\* Lines 372-406: path_parts = request.get_path().split('/'); the part
\* before the last is compared with "endpoint" first, then the last part with
\* "endpoints"; get_endpoint(uid) reads the uid index and get_endpoints()
\* lists the kind index; the response is sent once.
DoGet(t, path) ==
  /\ Quiet(t)
  /\ LET f == [NewFrame("do_GET") EXCEPT !.path = path]
         last == path[Len(path)]
         found == {u \in DOMAIN endpoints : UidText(u) = last}
         all == Results(kind_endpoints, "", "")
         answer ==
           IF path[Len(path) - 1] = "endpoint"
           THEN IF found = {}
                THEN SendText(404, "Unknown UID: ", last)
                ELSE SendJsonObject(make_endpoint_dict(endpoints[CHOOSE u \in found : TRUE]))
           ELSE IF last = "endpoints"
           THEN SendJsonArray(EndpointDicts(all))
           ELSE SendText(404, "Unhandled path", "")
     IN Finish(t, [f EXCEPT !.response = answer], ReturnNone)
  /\ UNCHANGED <<dispatcherState, servletState, history>>

\* ------------------------------------------------------------------ callers
\* What is kept of the finished call of thread t: the method, its arguments
\* and result, and the two indexes as they were when the call started.
FinishedCall(t) ==
  [op |-> frame[t].op, kind |-> frame[t].kind, name |-> frame[t].name,
   endpoint |-> frame[t].endpoint, result |-> frame[t].result,
   kinds |-> pre[t].kinds, uids |-> pre[t].uids]

\* The last two calls of a sequence of finished calls.
LastTwo(calls) == IF Len(calls) > 2 THEN Tail(calls) ELSE calls

\* The caller takes the result of its finished call; the thread is free for
\* its next call.
Return(t) ==
  /\ frame[t].pc = "done"
  /\ frame' = [frame EXCEPT ![t] = IdleFrame]
  /\ pre' = [pre EXCEPT ![t] = EmptyPre]
  /\ completed' =
       IF t \in DOMAIN completed
       THEN [completed EXCEPT ![t] = LastTwo(Append(@, FinishedCall(t)))]
       ELSE completed
  /\ UNCHANGED <<dispatcherState, servletState, registered, bindings, observed>>

\* ---------------------------------------------------------- specifications
\* The steps of thread t inside a Dispatcher method.
DispatcherStep(t) ==
  \/ AddCheck(t) \/ AddStoreKind(t) \/ AddStoreUid(t) \/ AddListeners(t)
  \/ AddNotify(t) \/ AddReturn(t)
  \/ UpdateCheck(t) \/ UpdateCompare(t) \/ UpdateNotify(t) \/ UpdateReturn(t)
  \/ RemoveDelUid(t) \/ RemoveListeners(t) \/ RemoveNotify(t) \/ RemoveReturn(t)
  \/ DispatchCall(t)
  \/ BindReplay(t) \/ BindReturn(t)

\* Thread t calls a Dispatcher method with arguments drawn from the sets of
\* the record a.
DispatcherCall(t, a) ==
  \/ \E k \in a.kind_args, n \in a.name_args, e \in a.endpoint_args :
       AddEndpoint(t, k, n, e)
  \/ \E k \in a.kind_args, n \in a.name_args, e \in a.endpoint_args,
        old \in a.old_properties :
       UpdateEndpoint(t, k, n, e, old)
  \/ \E k \in a.kind_args, n \in a.name_args : RemoveEndpoint(t, k, n)
  \/ \E e \in a.endpoints : GetEndpoint(t, e.uid)
  \/ \E k \in a.kind_args, n \in a.name_args : GetEndpoints(t, k, n)
  \/ \E k \in a.kinds, n \in a.names : GetService(t, k, n)
  \/ \E k \in a.kinds, n \in a.names, m \in a.methods, ps \in a.params :
       Dispatch(t, k, n, m, ps)
  \/ \E l \in a.listeners : Bind(t, l)
  \/ \E l \in a.listeners : Unbind(t, l)

\* The arguments of the single caller: every kind, name and end point, the
\* empty strings and None included.
SeqArgs ==
  [kind_args |-> KindArgs, name_args |-> NameArgs, endpoint_args |-> EndpointArgs,
   kinds |-> Kinds, names |-> Names, endpoints |-> EndpointObjects,
   listeners |-> ListenerIds, methods |-> Methods, params |-> ParamLists,
   old_properties |-> OldProperties]

\* One caller: the methods of the Dispatcher run one after the other.  The
\* shared state at the start of each call is recorded in pre.
Next ==
  \/ /\ DispatcherCall(MainThread, SeqArgs)
     /\ pre' = [pre EXCEPT ![MainThread] = Snap]
  \/ DispatcherStep(MainThread)
  \/ Return(MainThread)

Spec == Init /\ [][Next]_vars

\* Two callers whose calls interleave step by step.  Their calls draw valid
\* arguments from one kind, one name, two end points, one listener and one
\* method call.
ConcThreads == {1, 2}

ConcArgs ==
  [kind_args |-> {"http"}, name_args |-> {"calc"},
   endpoint_args |-> {MakeEndpoint(1), MakeEndpoint(2)},
   kinds |-> {"http"}, names |-> {"calc"},
   endpoints |-> {MakeEndpoint(1), MakeEndpoint(2)},
   listeners |-> {1}, methods |-> {"add"}, params |-> {<<2, 3>>},
   old_properties |-> {"before_a"}]

NextConc ==
  \E t \in ConcThreads :
    \/ /\ DispatcherCall(t, ConcArgs)
       /\ UNCHANGED pre
    \/ DispatcherStep(t)
    \/ Return(t)

SpecConc == Init /\ [][NextConc]_vars

\* One caller registering end points under two kinds and two names, listing
\* them and sending GET requests to the servlet; no listener is attached.
\* The shared state at the start of each call is recorded in pre.
NextQuery ==
  \/ /\ \/ \E k \in Kinds, n \in QueryNames, e \in EndpointObjects :
            AddEndpoint(MainThread, k, n, e)
        \/ \E k \in Kinds, n \in QueryNames : RemoveEndpoint(MainThread, k, n)
        \/ \E k \in KindArgs, n \in QueryNames \cup {""} :
            GetEndpoints(MainThread, k, n)
        \/ \E path \in SplitPaths : DoGet(MainThread, path)
     /\ pre' = [pre EXCEPT ![MainThread] = Snap]
  \/ AddCheck(MainThread) \/ AddStoreKind(MainThread) \/ AddStoreUid(MainThread)
  \/ AddListeners(MainThread) \/ AddReturn(MainThread)
  \/ RemoveDelUid(MainThread) \/ RemoveListeners(MainThread)
  \/ RemoveReturn(MainThread)
  \/ Return(MainThread)

SpecQuery == Init /\ [][NextQuery]_vars

\* The steps of thread t inside add_endpoint, update_endpoint and
\* remove_endpoint.
RegistryStep(t) ==
  \/ AddCheck(t) \/ AddStoreKind(t) \/ AddStoreUid(t) \/ AddListeners(t)
  \/ AddNotify(t) \/ AddReturn(t)
  \/ UpdateCheck(t) \/ UpdateCompare(t) \/ UpdateNotify(t) \/ UpdateReturn(t)
  \/ RemoveDelUid(t) \/ RemoveListeners(t) \/ RemoveNotify(t) \/ RemoveReturn(t)

\* The thread registering, updating and removing end points, and the
\* thread on which the framework attaches and detaches the listeners.
Registrar == 1
Framework == 2

\* The end point registered, under its own kind and name, while listeners
\* come and go.
DetachEndpoints == {MakeEndpoint(1)}

\* Listeners attach and detach while an end point is registered, updated
\* and removed.
NextDetach ==
  \/ /\ \/ \E e \in DetachEndpoints : AddEndpoint(Registrar, e.kind, e.name, e)
        \/ \E e \in DetachEndpoints :
             UpdateEndpoint(Registrar, e.kind, e.name, e, "before_a")
        \/ \E e \in DetachEndpoints : RemoveEndpoint(Registrar, e.kind, e.name)
        \/ \E l \in ListenerIds : Bind(Framework, l)
        \/ \E l \in ListenerIds : Unbind(Framework, l)
     /\ UNCHANGED pre
  \/ RegistryStep(Registrar)
  \/ BindReplay(Framework) \/ BindReturn(Framework)
  \/ Return(Registrar) \/ Return(Framework)

SpecDetach == Init /\ [][NextDetach]_vars

\* The end points registered while a listener attaches, each under its own
\* kind.
AttachEndpoints == {MakeEndpoint(1), MakeEndpoint(2)}

\* The listener that attaches and detaches.
Attaching == 1

\* One listener attaches and detaches while two end points are registered
\* and removed; what the listener is told is observed.
NextAttach ==
  \/ /\ \/ \E e \in AttachEndpoints : AddEndpoint(Registrar, e.kind, e.name, e)
        \/ \E e \in AttachEndpoints : RemoveEndpoint(Registrar, e.kind, e.name)
        \/ Bind(Framework, Attaching)
        \/ Unbind(Framework, Attaching)
     /\ UNCHANGED pre
  \/ AddCheck(Registrar) \/ AddStoreKind(Registrar) \/ AddStoreUid(Registrar)
  \/ AddListeners(Registrar) \/ AddNotify(Registrar) \/ AddReturn(Registrar)
  \/ RemoveDelUid(Registrar) \/ RemoveListeners(Registrar)
  \/ RemoveNotify(Registrar) \/ RemoveReturn(Registrar)
  \/ BindReplay(Framework) \/ BindReturn(Framework)
  \/ Return(Registrar) \/ Return(Framework)

SpecAttach == InitObserved /\ [][NextAttach]_vars

\* One caller registers, updates and removes two end points, each under
\* its own kind, while listeners attach and detach between its calls; what
\* the listeners are told is observed.
NextEvents ==
  \/ /\ \/ \E e \in AttachEndpoints : AddEndpoint(MainThread, e.kind, e.name, e)
        \/ \E e \in AttachEndpoints :
             UpdateEndpoint(MainThread, e.kind, e.name, e, "before_a")
        \/ \E e \in AttachEndpoints : RemoveEndpoint(MainThread, e.kind, e.name)
        \/ \E l \in ListenerIds : Bind(MainThread, l)
        \/ \E l \in ListenerIds : Unbind(MainThread, l)
     /\ UNCHANGED pre
  \/ RegistryStep(MainThread)
  \/ BindReplay(MainThread) \/ BindReturn(MainThread)
  \/ Return(MainThread)

SpecEvents == InitObserved /\ [][NextEvents]_vars

\* The end points and the listener of the round trips.
TripEndpoints == {MakeEndpoint(1), MakeEndpoint(2)}
TripListener == 1

\* One caller registers and removes two end points under two kinds while a
\* listener attaches and detaches between its calls.  The
\* shared state at the start of each call is recorded in pre, the finished
\* calls in completed.
NextRoundTrip ==
  \/ /\ \/ \E k \in Kinds, n \in Names, e \in TripEndpoints :
            AddEndpoint(MainThread, k, n, e)
        \/ \E k \in Kinds, n \in Names : RemoveEndpoint(MainThread, k, n)
        \/ Bind(MainThread, TripListener)
        \/ Unbind(MainThread, TripListener)
     /\ pre' = [pre EXCEPT ![MainThread] = Snap]
  \/ AddCheck(MainThread) \/ AddStoreKind(MainThread) \/ AddStoreUid(MainThread)
  \/ AddListeners(MainThread) \/ AddNotify(MainThread) \/ AddReturn(MainThread)
  \/ RemoveDelUid(MainThread) \/ RemoveListeners(MainThread)
  \/ RemoveNotify(MainThread) \/ RemoveReturn(MainThread)
  \/ BindReplay(MainThread) \/ BindReturn(MainThread)
  \/ Return(MainThread)

SpecRoundTrip == InitRecorded /\ [][NextRoundTrip]_vars

\* The servlet's bound_to / unbound_from called from several threads.
ServletStep(t) ==
  \/ \E p \in Ports : BoundTo(t, p)
  \/ BoundAppend(t) \/ BoundActivate(t)
  \/ \E p \in Ports : UnboundFrom(t, p)
  \/ UnboundRemove(t) \/ UnboundCheck(t) \/ UnboundDeactivate(t)

NextServlet == \E t \in Threads : ServletStep(t) \/ Return(t)

SpecServlet == Init /\ [][NextServlet]_vars

\* One caller binding and unbinding the servlet and asking for its access.
NextAccess ==
  \/ ServletStep(MainThread)
  \/ GetAccess(MainThread)
  \/ Return(MainThread)

SpecAccess == Init /\ [][NextAccess]_vars

\* ------------------------------------------------------------------ claims
\* Thread t has finished a call of method op and its result is at hand.
Done(t, op) == frame[t].pc = "done" /\ frame[t].op = op

\* No thread is inside a method.
AtRest == \A t \in Threads : frame[t].pc \in {"idle", "done"}

\* (kind, name) holds an end point in the kind index km.
Live(km, kind, name) == kind \in DOMAIN km /\ name \in DOMAIN km[kind]

\* The arguments pass the checks of lines 127-132 / 162-167.
ValidArgs(f) == f.kind # "" /\ f.name # "" /\ f.endpoint # NoEndpoint

\* The two indexes are bijective views of one live set.
Bijective(km, um) ==
  /\ \A u \in DOMAIN um :
       um[u].uid = u /\ Cardinality(SlotsOf(km, um[u])) = 1
  /\ \A s \in Slots :
       Live(km, s[1], s[2]) =>
         LET e == km[s[1]][s[2]]
         IN e.uid \in DOMAIN um /\ um[e.uid] = e

\* How many times listener l was called in the call of frame f.
TimesCalled(f, l) == Cardinality({i \in DOMAIN f.delivered : f.delivered[i] = l})

\* C1 as stated: between calls of add_endpoint, update_endpoint and
\* remove_endpoint, whatever their outcome, the uid index and the kind index
\* are bijective views of the same live set.
C1_Bijective == AtRest => Bijective(kind_endpoints, endpoints)

\* C1 amended: the indexes are bijective between calls as long as no
\* add_endpoint has stored an end point whose uid was already in the uid
\* index.
C1_BijectiveUniqueUids ==
  (AtRest /\ ~uid_reused) => Bijective(kind_endpoints, endpoints)

\* C1 witness: a remove_endpoint has succeeded, an end point is still live,
\* and no uid was stored twice.
C1_Witness ==
  /\ Done(MainThread, "remove_endpoint")
  /\ frame[MainThread].result = ReturnNone
  /\ Cardinality(DOMAIN endpoints) = 1
  /\ ~uid_reused

\* C2: add_endpoint on a (kind, name) that is live fails with KeyError for
\* every end point, leaves the stored end point and the uid index as they
\* were, and calls no listener.
C2_AddExistingFails ==
  \A t \in Threads :
    (/\ Done(t, "add_endpoint")
     /\ ValidArgs(frame[t])
     /\ Live(pre[t].kinds, frame[t].kind, frame[t].name))
    => /\ frame[t].result = Raise("KeyError")
       /\ Live(kind_endpoints, frame[t].kind, frame[t].name)
       /\ kind_endpoints[frame[t].kind][frame[t].name]
            = pre[t].kinds[frame[t].kind][frame[t].name]
       /\ endpoints = pre[t].uids
       /\ frame[t].delivered = <<>>

\* C2 witness: a second end point was refused on a live (kind, name) while a
\* listener was attached.
C2_Witness ==
  /\ Done(MainThread, "add_endpoint")
  /\ frame[MainThread].result = Raise("KeyError")
  /\ frame[MainThread].endpoint
       # kind_endpoints[frame[MainThread].kind][frame[MainThread].name]
  /\ frame[MainThread].endpoint.uid \notin DOMAIN endpoints
  /\ listeners # <<>>

\* C3: remove_endpoint on a (kind, name) that is not live fails with
\* KeyError, leaves both indexes as they were and calls no listener.
C3_RemoveUnknownFails ==
  \A t \in Threads :
    (/\ Done(t, "remove_endpoint")
     /\ ~Live(pre[t].kinds, frame[t].kind, frame[t].name))
    => /\ frame[t].result = Raise("KeyError")
       /\ kind_endpoints = pre[t].kinds
       /\ endpoints = pre[t].uids
       /\ frame[t].delivered = <<>>

\* C3 witness: a pair that was removed once is removed again, its kind being
\* known, another end point being live and a listener being attached.
C3_Witness ==
  /\ Done(MainThread, "remove_endpoint")
  /\ frame[MainThread].result = Raise("KeyError")
  /\ <<frame[MainThread].kind, frame[MainThread].name>> \in removed
  /\ frame[MainThread].kind \in DOMAIN kind_endpoints
  /\ endpoints # <<>>
  /\ listeners # <<>>

\* C4: dispatch on a live (kind, name) whose instance has the method returns
\* or raises exactly what the method called with the parameters does; on a
\* pair that is not live it raises the unknown-endpoint error and on a
\* missing method the unknown-method error, calling nothing.
C4_DispatchResult ==
  \A t \in Threads :
    Done(t, "dispatch") =>
      LET f == frame[t]
      IN IF ~Live(pre[t].kinds, f.kind, f.name)
         THEN /\ f.result = Raise("RemoteServiceError: Unknown endpoint")
              /\ ~f.invoked
         ELSE LET service == pre[t].kinds[f.kind][f.name].instance
              IN IF f.method \notin MethodsOf(service)
                 THEN /\ f.result = Raise("RemoteServiceError: Unknown method")
                      /\ ~f.invoked
                 ELSE /\ f.result = CallMethod(service, f.method, f.params)
                      /\ f.invoked

\* C4 witness: a method of a live end point raised its own error through
\* dispatch.
C4_Witness ==
  /\ Done(MainThread, "dispatch")
  /\ frame[MainThread].result = Raise("ZeroDivisionError")

\* C5: after a successful remove_endpoint of (kind, name) and until the pair
\* is added again, dispatch fails with the unknown-endpoint error without
\* calling the removed instance, and get_service returns None.
C5_RemovedIsGone ==
  \A t \in Threads :
    (<<frame[t].kind, frame[t].name>> \in removed) =>
      /\ Done(t, "dispatch") =>
           /\ frame[t].result = Raise("RemoteServiceError: Unknown endpoint")
           /\ ~frame[t].invoked
      /\ Done(t, "get_service") => frame[t].result = ReturnService("None")

\* C5 witness: dispatch was called on a pair removed before.
C5_Witness ==
  /\ Done(MainThread, "dispatch")
  /\ <<frame[MainThread].kind, frame[MainThread].name>> \in removed

\* C6 as stated: a listener bound while N end points are live is called with
\* endpoint_added exactly N times during the replay, once per live end point.
C6_ReplayComplete ==
  \A t \in Threads :
    Done(t, "bind") =>
      /\ Len(frame[t].delivered) = Cardinality(DOMAIN pre[t].uids)
      /\ {frame[t].delivered[i] : i \in DOMAIN frame[t].delivered}
           = DOMAIN pre[t].uids

\* C7 as stated: when a listener raises during the fan-out of add_endpoint,
\* update_endpoint or remove_endpoint, every other listener attached at the
\* start of the call is still called exactly once.
C7_OthersStillNotified ==
  \A t \in Threads :
    (/\ frame[t].pc = "done"
     /\ frame[t].op \in {"add_endpoint", "update_endpoint", "remove_endpoint"}
     /\ frame[t].raised_by # 0)
    => \A i \in DOMAIN pre[t].listeners :
         pre[t].listeners[i] # frame[t].raised_by
           => TimesCalled(frame[t], pre[t].listeners[i]) = 1

\* C8 as stated: when the registry preconditions of add_endpoint,
\* update_endpoint or remove_endpoint hold, the call returns normally
\* (add_endpoint returns True) with the index change made, whatever the
\* listeners do.
C8_ListenerFailureIsolated ==
  \A t \in Threads :
    LET f == frame[t]
    IN /\ (/\ Done(t, "add_endpoint") /\ ValidArgs(f)
           /\ ~Live(pre[t].kinds, f.kind, f.name))
          => /\ f.result = PyTrue
             /\ Live(kind_endpoints, f.kind, f.name)
             /\ kind_endpoints[f.kind][f.name] = f.endpoint
       /\ (/\ Done(t, "update_endpoint") /\ ValidArgs(f)
           /\ Live(pre[t].kinds, f.kind, f.name)
           /\ pre[t].kinds[f.kind][f.name] = f.endpoint)
          => f.result = ReturnNone
       /\ (/\ Done(t, "remove_endpoint") /\ ~uid_reused
           /\ Live(pre[t].kinds, f.kind, f.name))
          => /\ f.result = ReturnNone
             /\ ~Live(kind_endpoints, f.kind, f.name)

\* C9 as stated: whenever no bound_to or unbound_from call is in progress,
\* the servlet is active exactly when a port is bound.
C9_ActiveIffBound == AtRest => (controller <=> ports # <<>>)

\* C10 as stated: no get_endpoint sees an end point in one index and not in
\* the other, and no two add_endpoint calls store under the same (kind, name)
\* without a removal in between.
C10_MutualExclusion ==
  /\ \A t \in Threads : Done(t, "get_endpoint") => frame[t].consistent
  /\ \A s \in Slots : live_adds[s] <= 1

\* The calls of endpoint_updated(endpoint, old_properties) that reach every
\* listener of the list ls once, in the order of the list.
UpdatedOnce(ls, endpoint, old) ==
  [i \in DOMAIN ls |-> Event(ls[i], "endpoint_updated", endpoint, old)]

\* C11: an update_endpoint whose arguments pass the argument checks fails
\* with KeyError when (kind, name) holds no end point and with ValueError
\* when the stored end point differs from the given one; when it returns,
\* every attached listener has received exactly one
\* endpoint_updated(endpoint, old_properties) and both indexes are as they
\* were when the call started.
C11_UpdateEndpoint ==
  \A t \in Threads :
    (Done(t, "update_endpoint") /\ ValidArgs(frame[t])) =>
      LET f == frame[t]
      IN /\ ~Live(pre[t].kinds, f.kind, f.name) => f.result = Raise("KeyError")
         /\ (Live(pre[t].kinds, f.kind, f.name)
               /\ pre[t].kinds[f.kind][f.name] # f.endpoint)
              => f.result = Raise("ValueError")
         /\ f.result.status = "return" =>
              /\ f.result = ReturnNone
              /\ f.events = UpdatedOnce(pre[t].listeners, f.endpoint, f.old_properties)
              /\ kind_endpoints = pre[t].kinds
              /\ endpoints = pre[t].uids

\* C11 witness: an update_endpoint of a live end point has returned after
\* calling two attached listeners while another end point is live too.
C11_Witness ==
  /\ Done(MainThread, "update_endpoint")
  /\ frame[MainThread].result = ReturnNone
  /\ Len(frame[MainThread].events) = 2
  /\ frame[MainThread].old_properties = "before_b"
  /\ Cardinality(DOMAIN endpoints) = 2

\* The bag holding every element of the set S once.
OnceEach(S) == [e \in S |-> 1]

\* The occupied entries of the kind index km that pass the filters; "" is
\* an absent filter.
Occupied(km, kind, name) ==
  {s \in Slots : /\ Live(km, s[1], s[2])
                 /\ kind = "" \/ s[1] = kind
                 /\ name = "" \/ s[2] = name}

\* C12 as stated: get_endpoints returns every live end point exactly once
\* without filters, exactly the end points under the kind when only the kind
\* is given, a list of 0 or 1 element holding the named end point whenever a
\* name is given, and the empty list for an unknown kind.
C12_GetEndpoints ==
  \A t \in Threads :
    Done(t, "get_endpoints") =>
      LET f == frame[t]
          l == f.result.list
          km == kind_endpoints
      IN /\ f.result.is_list
         /\ (f.kind = "" /\ f.name = "") => l = OnceEach(DictValues(endpoints))
         /\ (f.kind # "" /\ f.name = "") =>
              l = OnceEach({km[s[1]][s[2]] : s \in Occupied(km, f.kind, "")})
         /\ f.name # "" =>
              /\ BagCardinality(l) <= 1
              /\ Occupied(km, f.kind, f.name) # {} => BagCardinality(l) = 1
              /\ \A e \in DOMAIN l :
                   \E s \in Occupied(km, f.kind, f.name) : km[s[1]][s[2]] = e
         /\ (f.kind # "" /\ f.kind \notin DOMAIN km) => l = EmptyBag

\* C12 amended: get_endpoints returns one element for every occupied
\* (kind, name) entry that passes the filters given: at most one element when
\* kind and name are both given, one element per kind holding the name when
\* only the name is given, the empty list for an unknown kind; as long as no
\* end point was stored under an indexed uid, no end point is listed twice
\* and the list without filters holds exactly the end points of the uid index.
C12_GetEndpointsPerEntry ==
  \A t \in Threads :
    Done(t, "get_endpoints") =>
      LET f == frame[t]
          l == f.result.list
          km == kind_endpoints
      IN /\ f.result.is_list
         /\ DOMAIN l \subseteq EndpointObjects
         /\ \A e \in EndpointObjects :
              CopiesIn(e, l) =
                Cardinality({s \in Occupied(km, f.kind, f.name) : km[s[1]][s[2]] = e})
         /\ (f.kind # "" /\ f.name # "") => BagCardinality(l) <= 1
         /\ (f.kind # "" /\ f.kind \notin DOMAIN km) => l = EmptyBag
         /\ ~uid_reused =>
              /\ \A e \in EndpointObjects : CopiesIn(e, l) <= 1
              /\ (f.kind = "" /\ f.name = "") => BagToSet(l) = DictValues(endpoints)

\* C12 witness: get_endpoints with only a name has returned two end points,
\* one of each kind, while a third end point is live under another name and
\* no uid was stored twice.
C12_Witness ==
  /\ Done(MainThread, "get_endpoints")
  /\ frame[MainThread].kind = "" /\ frame[MainThread].name = "calc"
  /\ BagCardinality(frame[MainThread].result.list) = 2
  /\ Cardinality(DOMAIN endpoints) = 3
  /\ ~uid_reused

\* C13: a GET request whose path ends in /endpoint/<uid> is answered 200 with
\* the dictionary of the end point indexed by uid, and 404 in plain text when
\* the uid is not indexed; otherwise a path ending in /endpoints is answered
\* 200 with the JSON list of the dictionaries of the end points
\* get_endpoints() lists (the empty list when there is none; exactly the
\* end points of the uid index as long as no uid was stored twice); any
\* other path is answered 404 in plain text; the request changes neither
\* index.
C13_DoGet ==
  \A t \in Threads :
    Done(t, "do_GET") =>
      LET f == frame[t]
          r == f.response
          last == f.path[Len(f.path)]
          before == f.path[Len(f.path) - 1]
          live == {e \in DictValues(endpoints) : UidText(e.uid) = last}
      IN /\ (before = "endpoint" /\ live # {}) =>
              /\ r.code = 200 /\ r.mime = "application/json" /\ r.form = "object"
              /\ \E e \in live : r.object = make_endpoint_dict(e)
         /\ (before = "endpoint" /\ live = {}) =>
              r.code = 404 /\ r.mime = "text/plain" /\ r.form = "text"
         /\ (before # "endpoint" /\ last = "endpoints") =>
              /\ r.code = 200 /\ r.mime = "application/json" /\ r.form = "array"
              /\ \A e \in EndpointObjects :
                   CopiesIn(make_endpoint_dict(e), r.array) =
                     Cardinality({s \in Occupied(kind_endpoints, "", "") :
                                   kind_endpoints[s[1]][s[2]] = e})
              /\ Occupied(kind_endpoints, "", "") = {} => r.array = EmptyBag
              /\ ~uid_reused =>
                   r.array = OnceEach({make_endpoint_dict(e) : e \in DictValues(endpoints)})
         /\ (before # "endpoint" /\ last # "endpoints") =>
              r.code = 404 /\ r.mime = "text/plain" /\ r.form = "text"
         /\ kind_endpoints = pre[t].kinds
         /\ endpoints = pre[t].uids

\* C13 witness: with two end points live, a request for /endpoints has been
\* answered with a list of two dictionaries.
C13_Witness ==
  /\ Done(MainThread, "do_GET")
  /\ frame[MainThread].path = <<"", "endpoints">>
  /\ frame[MainThread].response.code = 200
  /\ BagCardinality(frame[MainThread].response.array) = 2
  /\ Cardinality(DOMAIN endpoints) = 2

\* C14: between the calls of one caller the ports of the servlet are exactly
\* the ports given to bound_to and not to unbound_from since, each once;
\* get_access returns None exactly when there is none, and otherwise the
\* servlet path with the bound port that was bound before every other bound
\* port.
C14_GetAccess ==
  /\ AtRest =>
       /\ {ports[i] : i \in DOMAIN ports} = bound_ports
       /\ Len(ports) = Cardinality(bound_ports)
  /\ \A t \in Threads :
       Done(t, "get_access") =>
         LET r == frame[t].result
         IN IF bound_ports = {}
            THEN r = ReturnNone
            ELSE /\ r.status = "return"
                 /\ Len(r.access) = 2
                 /\ r.access[2] = ServletPath
                 /\ r.access[1] \in bound_ports
                 /\ \A q \in bound_ports \ {r.access[1]} :
                      <<r.access[1], q>> \in bound_before

\* C14 witness: ports 1 and 2 are bound, port 2 before port 1, and
\* get_access has returned port 2.
C14_Witness ==
  /\ Done(MainThread, "get_access")
  /\ bound_ports = {1, 2}
  /\ <<2, 1>> \in bound_before
  /\ frame[MainThread].result = ReturnAccess(2, ServletPath)

\* The methods that notify the attached listeners.
Notifiers == {"add_endpoint", "update_endpoint", "remove_endpoint"}

\* C15: when add_endpoint, update_endpoint or remove_endpoint returns, every
\* listener that was attached when its notification started and has not
\* detached since has been called exactly once, whatever listeners detached
\* in the meantime.
C15_SnapshotNotified ==
  \A t \in Threads :
    (frame[t].pc = "done" /\ frame[t].op \in Notifiers
       /\ frame[t].result.status = "return") =>
      \A i \in DOMAIN frame[t].attached :
        frame[t].attached[i] \notin frame[t].detached
          => TimesCalled(frame[t], frame[t].attached[i]) = 1

\* How many times the replay of frame f has delivered the end point of uid.
TimesReplayed(f, uid) == Cardinality({i \in DOMAIN f.delivered : f.delivered[i] = uid})

\* The replay of a finished bind whose callbacks all returned has delivered,
\* exactly once, every end point that was live when it started and was not
\* removed while it ran.
ReplayCoversLive ==
  \A t \in Threads :
    (Done(t, "bind") /\ frame[t].raised_by = 0) =>
      \A e \in frame[t].live_at_start :
        e.uid \notin frame[t].unregistered
          => TimesReplayed(frame[t], e.uid) = 1

\* No observed listener has been told endpoint_added for an end point it had
\* been told of and not told removed.
NeverAddedTwice == \A l \in DOMAIN heard : <<l, "added twice">> \notin malformed

\* C16: a listener that attaches while add_endpoint and remove_endpoint run
\* on another thread is replayed every end point that stays live during the
\* replay exactly once, and is never told endpoint_added twice for an end
\* point, by the replay and by the notification of the add_endpoint that
\* stored it.
C16_ConsistentReplay == ReplayCoversLive /\ NeverAddedTwice

\* C17: while a thread is inside the method called by dispatch, the method
\* can return, every other thread that is inside a Dispatcher method can
\* take its next step and every other thread that is not can start
\* remove_endpoint, add_endpoint, update_endpoint, get_endpoint and
\* get_endpoints; a dispatch that has called the method ends with the
\* result of the method, also when the end point was removed meanwhile.
C17_DispatchDoesNotBlock ==
  /\ \A t \in ConcThreads :
       frame[t].pc = "dispatch_call" =>
         /\ ENABLED DispatchCall(t)
         /\ \A u \in ConcThreads \ {t} :
              /\ frame[u].pc \notin {"idle", "done"} => ENABLED DispatcherStep(u)
              /\ frame[u].pc = "done" => ENABLED Return(u)
              /\ Quiet(u) =>
                   /\ ENABLED RemoveEndpoint(u, frame[t].kind, frame[t].name)
                   /\ \A e \in ConcArgs.endpoint_args :
                        /\ ENABLED AddEndpoint(u, frame[t].kind, frame[t].name, e)
                        /\ ENABLED UpdateEndpoint(u, frame[t].kind, frame[t].name, e,
                                                  "before_a")
                        /\ ENABLED GetEndpoint(u, e.uid)
                   /\ ENABLED GetEndpoints(u, frame[t].kind, frame[t].name)
  /\ \A t \in ConcThreads :
       (Done(t, "dispatch") /\ frame[t].invoked) =>
         frame[t].result = CallMethod(frame[t].service, frame[t].method, frame[t].params)

\* C17 witness: a dispatch has returned the result of the method although
\* remove_endpoint removed its end point, and returned, while the method was
\* running.
C17_Witness ==
  \E t \in ConcThreads, u \in ConcThreads :
    /\ Done(t, "dispatch") /\ frame[t].invoked
    /\ frame[t].result = ReturnValue(5)
    /\ frame[t].unregistered # {}
    /\ Done(u, "remove_endpoint") /\ frame[u].result = ReturnNone
    /\ frame[u].kind = frame[t].kind /\ frame[u].name = frame[t].name
    /\ ~Live(kind_endpoints, frame[t].kind, frame[t].name)

\* The call of thread t is a call of method op that has called a listener.
Notified(t, op) == frame[t].op = op /\ frame[t].events # <<>>

\* The call of thread t has failed with an error of the registry.
RegistryError(t) ==
  /\ frame[t].pc = "done" /\ frame[t].op \in Notifiers
  /\ frame[t].result.status = "raise"
  /\ frame[t].result.exc \in {"KeyError", "ValueError"}

\* The end point of an add_endpoint that has called a listener is in both
\* indexes, where get_endpoint and get_endpoints find it.
AddedIsIndexed(t) ==
  Notified(t, "add_endpoint") =>
    LET f == frame[t]
    IN /\ f.endpoint.uid \in DOMAIN endpoints
       /\ endpoints[f.endpoint.uid] = f.endpoint
       /\ Live(kind_endpoints, f.kind, f.name)
       /\ kind_endpoints[f.kind][f.name] = f.endpoint
       /\ CopiesIn(f.endpoint, Results(kind_endpoints, "", "")) >= 1
       /\ CopiesIn(f.endpoint, Results(kind_endpoints, f.kind, f.name)) = 1

\* C18 as stated: when add_endpoint calls endpoint_added(e), e is in both
\* indexes and get_endpoint and get_endpoints find it; when remove_endpoint
\* calls endpoint_removed(e), e is in neither index; a call that fails with
\* an error of the registry has called no listener.
C18_NotifyAfterMutation ==
  \A t \in Threads :
    /\ AddedIsIndexed(t)
    /\ Notified(t, "remove_endpoint") =>
         /\ frame[t].endpoint.uid \notin DOMAIN endpoints
         /\ SlotsOf(kind_endpoints, frame[t].endpoint) = {}
         /\ CopiesIn(frame[t].endpoint, Results(kind_endpoints, "", "")) = 0
    /\ RegistryError(t) => frame[t].events = <<>>

\* C18 amended: as stated, but when remove_endpoint(kind, name) calls
\* endpoint_removed(e), e is absent from the uid index and from the entry
\* (kind, name) of the kind index; it is absent from the whole kind index,
\* and from get_endpoints, as long as no end point was stored under an
\* indexed uid.
C18_NotifyAfterMutationOfEntry ==
  \A t \in Threads :
    /\ AddedIsIndexed(t)
    /\ Notified(t, "remove_endpoint") =>
         /\ frame[t].endpoint.uid \notin DOMAIN endpoints
         /\ ~Live(kind_endpoints, frame[t].kind, frame[t].name)
         /\ ~uid_reused =>
              /\ SlotsOf(kind_endpoints, frame[t].endpoint) = {}
              /\ CopiesIn(frame[t].endpoint, Results(kind_endpoints, "", "")) = 0
    /\ RegistryError(t) => frame[t].events = <<>>

\* C18 witness: remove_endpoint is calling the second of two listeners with
\* an end point that is in neither index while another end point is live.
C18_Witness ==
  /\ frame[MainThread].op = "remove_endpoint"
  /\ frame[MainThread].pc = "remove_notify"
  /\ Len(frame[MainThread].events) = 1
  /\ Len(frame[MainThread].snapshot) = 2
  /\ SlotsOf(kind_endpoints, frame[MainThread].endpoint) = {}
  /\ Cardinality(DOMAIN endpoints) = 1
  /\ ~uid_reused

\* C19: an attached listener is never told endpoint_updated or
\* endpoint_removed for an end point it was not told added, and never told
\* endpoint_added for an end point it was told added and not told removed
\* since.
C19_WellFormedEvents == malformed = {}

\* The answers of get_endpoint, get_endpoints and get_service, for all their
\* arguments, are the same in the indexes km1, um1 and in the indexes km2, um2.
SameAnswers(km1, um1, km2, um2) ==
  /\ \A uid \in 0 .. NumEndpoints + 1 : EndpointOf(um1, uid) = EndpointOf(um2, uid)
  /\ \A k \in KindArgs, n \in NameArgs \cup QueryNames :
       /\ Results(km1, k, n) = Results(km2, k, n)
       /\ ServiceOf(km1, k, n) = ServiceOf(km2, k, n)

\* C20: an add_endpoint or update_endpoint that fails with an error of the
\* registry (empty kind or name, missing end point, unknown or occupied
\* (kind, name), other stored end point) leaves the answers of get_endpoint,
\* get_endpoints and get_service as they were, leaves every free
\* (kind, name) free, and calls no listener; and an add_endpoint of a free
\* (kind, name) whose listeners all return succeeds whatever calls failed
\* before it.
C20_FailedCallsChangeNothing ==
  \A t \in Threads :
    /\ (RegistryError(t) /\ frame[t].op \in {"add_endpoint", "update_endpoint"}) =>
         /\ SameAnswers(kind_endpoints, endpoints, pre[t].kinds, pre[t].uids)
         /\ \A s \in Slots :
              Live(kind_endpoints, s[1], s[2]) <=> Live(pre[t].kinds, s[1], s[2])
         /\ frame[t].events = <<>>
    /\ (/\ Done(t, "add_endpoint") /\ ValidArgs(frame[t])
        /\ ~Live(pre[t].kinds, frame[t].kind, frame[t].name)
        /\ frame[t].raised_by = 0)
       => frame[t].result = PyTrue

\* C20 witness: update_endpoint has failed on a kind never seen before, with
\* a listener attached and an end point live under the other kind; the kind
\* index has gained an empty map for the kind.
C20_Witness ==
  /\ Done(MainThread, "update_endpoint")
  /\ frame[MainThread].result = Raise("KeyError")
  /\ frame[MainThread].kind \notin DOMAIN pre[MainThread].kinds
  /\ kind_endpoints[frame[MainThread].kind] = <<>>
  /\ listeners # <<>>
  /\ Cardinality(DOMAIN endpoints) = 1

\* What dispatch(kind, name, method, params) answers in the kind index km
\* (lines 279-290).
DispatchAnswer(km, kind, name, method, params) ==
  LET target == DispatchTarget(km, kind, name)
  IN IF target = NoEndpoint
     THEN Raise("RemoteServiceError: Unknown endpoint")
     ELSE IF method \notin MethodsOf(target.instance)
     THEN Raise("RemoteServiceError: Unknown method")
     ELSE CallMethod(target.instance, method, params)

\* The answers of dispatch, for all its arguments, are the same in the kind
\* indexes km1 and km2.
SameDispatch(km1, km2) ==
  \A k \in KindArgs, n \in NameArgs \cup QueryNames, m \in Methods, ps \in ParamLists :
    DispatchAnswer(km1, k, n, m, ps) = DispatchAnswer(km2, k, n, m, ps)

\* The finished call c is an add_endpoint(kind, name, ...) that returned True.
AddedTo(c, kind, name) ==
  /\ c.op = "add_endpoint" /\ c.result = PyTrue
  /\ c.kind = kind /\ c.name = name

\* Thread t has finished remove_endpoint(kind, name) right after an
\* add_endpoint(kind, name, e) of its own that returned True.
RoundTrip(t) ==
  /\ Done(t, "remove_endpoint")
  /\ t \in DOMAIN completed /\ completed[t] # <<>>
  /\ AddedTo(completed[t][Len(completed[t])], frame[t].kind, frame[t].name)

\* The add_endpoint that opened the round trip of thread t.
TripAdd(t) == completed[t][Len(completed[t])]

\* Thread t has finished add_endpoint(kind, name, e') right after a round
\* trip of its own on (kind, name).
AddAfterRoundTrip(t) ==
  /\ Done(t, "add_endpoint")
  /\ t \in DOMAIN completed /\ Len(completed[t]) = 2
  /\ AddedTo(completed[t][1], frame[t].kind, frame[t].name)
  /\ completed[t][2].op = "remove_endpoint"
  /\ completed[t][2].kind = frame[t].kind
  /\ completed[t][2].name = frame[t].name

\* C21 as stated: when add_endpoint(kind, name, e) has returned True and
\* remove_endpoint(kind, name) has followed it, get_endpoint, get_endpoints,
\* get_service and dispatch answer, for all their arguments, as they did
\* before the add; and the add_endpoint(kind, name, e') that follows
\* returns True, whatever e' is.
C21_RoundTrip ==
  \A t \in Threads :
    /\ RoundTrip(t) =>
         /\ SameAnswers(kind_endpoints, endpoints, TripAdd(t).kinds, TripAdd(t).uids)
         /\ SameDispatch(kind_endpoints, TripAdd(t).kinds)
    /\ AddAfterRoundTrip(t) => frame[t].result = PyTrue

====
